---- MODULE Spec2Model ----
(***************************************************************************)
(* Model of FlexLayout (src/src/flex/layout/FlexLayout.mjs): the layout    *)
(* orchestrator of one flex container.  Every public method is one atomic  *)
(* action (execution is single-threaded and synchronous); the private      *)
(* methods are operators on a record `s` holding the mutable fields, and   *)
(* every step appends an event with a snapshot of the fields to s.trace,   *)
(* so that the order of the steps inside one call can be stated.           *)
(*                                                                         *)
(* LineLayouter, ContentAligner, ItemCoordinatesUpdater and FlexUtils are  *)
(* not part of the source at hand; they are modelled from their contracts  *)
(* (children are leaf items without grow/shrink, align-content stacks the  *)
(* lines).                                                                 *)
(***************************************************************************)
EXTENDS Integers, Sequences, FiniteSets, TLC

\* ---------------------------------------------------------------- bounds
MaxItems == 2
MaxSize == 2

\* Sizes passed to the resize calls.
Sizes == 0..MaxSize
\* The configured size of an axis: unset, or fixed.
BasisSizes == {0, MaxSize}
\* Children: w + h is constant, so that the two axes of a child differ.
Item == {[w |-> a, h |-> MaxSize + 1 - a] : a \in 1..MaxSize}
\* The children of the container: up to MaxItems equal leaf items.
ItemSeqs == {[i \in 1..n |-> it] : n \in 0..MaxItems, it \in Item}

\* ----------------------------------------------------------------- state
VARIABLES
    horizontal,          \* _flexContainer._horizontal (configuration)
    wrap,                \* _flexContainer.wrap (configuration)
    flexParent,          \* item.flexParent: the node is a flex item of an ancestor
    basisW, basisH,      \* configured size of the node per physical axis (0 = unset)
    items,               \* item.items: the children, leaf items [w, h]
    layoutW, layoutH,    \* resolved layout size of the node per physical axis
    _resizingMainAxis,
    _resizingCrossAxis,
    _deferLayout,
    lines,               \* _lineLayouter.lines: sequence of [first, last]
    linesLaidOut,        \* layoutLines has run at least once
    _totalCrossAxisSize,
    op,                  \* the last public call: name, arguments, result, trace
    eagerMinSize         \* history: while deferred, the min sizes an immediate
                         \* updateTreeLayout() at the deferLayout() call gave

config == <<horizontal, wrap, flexParent, basisW, basisH, items>>
fields == <<layoutW, layoutH, _resizingMainAxis, _resizingCrossAxis, _deferLayout,
            lines, linesLaidOut, _totalCrossAxisSize>>
vars == <<config, fields, op, eagerMinSize>>

\* ------------------------------------------------------------- utilities
Max2(a, b) == IF a >= b THEN a ELSE b

RECURSIVE SumOver(_, _, _)
SumOver(f(_), lo, hi) == IF lo > hi THEN 0 ELSE f(lo) + SumOver(f, lo + 1, hi)

RECURSIVE MaxOver(_, _, _)
MaxOver(f(_), lo, hi) == IF lo > hi THEN 0 ELSE Max2(f(lo), MaxOver(f, lo + 1, hi))

\* The fields a call can reach as one record (the configured sizes of the
\* item included); trace starts empty for each public call.
Cur ==
    [layoutW |-> layoutW, layoutH |-> layoutH,
     basisW |-> basisW, basisH |-> basisH,
     resizingMainAxis |-> _resizingMainAxis,
     resizingCrossAxis |-> _resizingCrossAxis,
     deferLayout |-> _deferLayout,
     lines |-> lines, linesLaidOut |-> linesLaidOut,
     totalCrossAxisSize |-> _totalCrossAxisSize,
     trace |-> <<>>]

\* ------------------------------------------------- FlexUtils (axis utility)
getAxisSize(h) == IF h THEN basisW ELSE basisH

getAxisLayoutSize(s, h) == IF h THEN s.layoutW ELSE s.layoutH

setAxisLayoutSize(s, h, v) ==
    IF h THEN [s EXCEPT !.layoutW = v] ELSE [s EXCEPT !.layoutH = v]

\* --------------------------------------------------- FlexLayout accessors
_getMainAxisBasis == getAxisSize(horizontal)

_getCrossAxisBasis == getAxisSize(~horizontal)

mainAxisSize(s) == getAxisLayoutSize(s, horizontal)

crossAxisSize(s) == getAxisLayoutSize(s, ~horizontal)

setMainAxisSize_WritesConfiguredSize(s, v) ==
    IF horizontal THEN [s EXCEPT !.basisW = v] ELSE [s EXCEPT !.basisH = v]

setMainAxisSize(s, v) == setAxisLayoutSize(s, horizontal, v)

setCrossAxisSize(s, v) == setAxisLayoutSize(s, ~horizontal, v)

isWrapping == wrap

_hasFixedMainAxisBasis == _getMainAxisBasis # 0

_hasFixedCrossAxisBasis == _getCrossAxisBasis # 0

isMainAxisFitToContents_FixedBasisOnly == ~isWrapping /\ _hasFixedMainAxisBasis

isMainAxisFitToContents_IgnoreWrap == ~_hasFixedMainAxisBasis

isMainAxisFitToContents == ~isWrapping /\ ~_hasFixedMainAxisBasis

isCrossAxisFitToContents == ~_hasFixedCrossAxisBasis

isLayoutDeferred(s) == s.deferLayout

\* An event of the trace: the step taken and the fields right after it.
Ev(name, s) ==
    [call |-> name,
     main |-> mainAxisSize(s), cross |-> crossAxisSize(s),
     resizingMainAxis |-> s.resizingMainAxis,
     resizingCrossAxis |-> s.resizingCrossAxis,
     deferLayout |-> s.deferLayout]

Log(name, s) == [s EXCEPT !.trace = Append(s.trace, Ev(name, s))]

\* ------------------------------------------------------------ LineLayouter
itemMain(i) == IF horizontal THEN items[i].w ELSE items[i].h

itemCross(i) == IF horizontal THEN items[i].h ELSE items[i].w

\* Greedy packing: a new line starts when the next item would overflow the
\* available main-axis size; without wrap there is one line with all items.
RECURSIVE PackLines(_, _, _, _, _)
PackLines(i, start, pos, avail, acc) ==
    IF i > Len(items)
    THEN IF start < i THEN Append(acc, [first |-> start, last |-> i - 1]) ELSE acc
    ELSE IF isWrapping /\ i > start /\ pos + itemMain(i) > avail
         THEN PackLines(i + 1, i, itemMain(i), avail,
                        Append(acc, [first |-> start, last |-> i - 1]))
         ELSE PackLines(i + 1, start, pos + itemMain(i), avail, acc)

lineMainAxisContentSize(ln) == SumOver(itemMain, ln.first, ln.last)

lineCrossAxisSize(ln) == MaxOver(itemCross, ln.first, ln.last)

mainAxisContentSize(s) ==
    LET f(k) == lineMainAxisContentSize(s.lines[k]) IN MaxOver(f, 1, Len(s.lines))

mainAxisMinSize(s) ==
    IF Len(s.lines) = 1
    THEN lineMainAxisContentSize(s.lines[1])
    ELSE MaxOver(itemMain, 1, Len(items))

crossAxisMinSize(s) ==
    LET f(k) == lineCrossAxisSize(s.lines[k]) IN SumOver(f, 1, Len(s.lines))

layoutLines(s) ==
    Log("layoutLines",
        [s EXCEPT !.lines = PackLines(1, 1, 0, mainAxisSize(s), <<>>),
                  !.linesLaidOut = TRUE])

\* ---------------------------------------------------------- ContentAligner
alignerTotalCrossAxisSize(s) ==
    LET f(k) == lineCrossAxisSize(s.lines[k]) IN SumOver(f, 1, Len(s.lines))

alignerInit(s) == Log("aligner.init", s)

alignerAlign(s) == Log("aligner.align", s)

\* ------------------------------------------------- ItemCoordinatesUpdater
finalize(s) == Log("finalize", s)

\* ------------------------------------------------- FlexLayout private steps
resetDeferredLayout(s) == Log("resetDeferredLayout", [s EXCEPT !.deferLayout = FALSE])

_setInitialAxisSizes_FlagsOnly(s) ==
    Log("_setInitialAxisSizes",
        [s EXCEPT !.resizingMainAxis = FALSE, !.resizingCrossAxis = FALSE])

_setInitialAxisSizes(s) ==
    LET s1 == setMainAxisSize(s, _getMainAxisBasis)
        s2 == setCrossAxisSize(s1, _getCrossAxisBasis)
    IN Log("_setInitialAxisSizes",
           [s2 EXCEPT !.resizingMainAxis = FALSE, !.resizingCrossAxis = FALSE])

_layoutLines(s) == layoutLines(s)

_fitMainAxisSizeToContents_Unguarded(s) ==
    Log("_fitMainAxisSizeToContents",
        IF isMainAxisFitToContents
        THEN setMainAxisSize(s, mainAxisContentSize(s))
        ELSE s)

_fitMainAxisSizeToContents(s) ==
    Log("_fitMainAxisSizeToContents",
        IF ~s.resizingMainAxis /\ isMainAxisFitToContents
        THEN setMainAxisSize(s, mainAxisContentSize(s))
        ELSE s)

_layoutMainAxis(s) == _fitMainAxisSizeToContents(_layoutLines(s))

_fitCrossAxisSizeToContents_IgnoreBasis(s) ==
    Log("_fitCrossAxisSizeToContents",
        IF ~s.resizingCrossAxis
        THEN setCrossAxisSize(s, s.totalCrossAxisSize)
        ELSE s)

_fitCrossAxisSizeToContents_CheckMainFlag(s) ==
    Log("_fitCrossAxisSizeToContents",
        IF ~s.resizingMainAxis /\ isCrossAxisFitToContents
        THEN setCrossAxisSize(s, s.totalCrossAxisSize)
        ELSE s)

_fitCrossAxisSizeToContents(s) ==
    Log("_fitCrossAxisSizeToContents",
        IF ~s.resizingCrossAxis /\ isCrossAxisFitToContents
        THEN setCrossAxisSize(s, s.totalCrossAxisSize)
        ELSE s)

_layoutCrossAxis_AlignBeforeFit(s) ==
    LET s1 == alignerInit(s)
        s2 == [s1 EXCEPT !.totalCrossAxisSize = alignerTotalCrossAxisSize(s1)]
    IN _fitCrossAxisSizeToContents(alignerAlign(s2))

_layoutCrossAxis(s) ==
    LET s1 == alignerInit(s)
        s2 == [s1 EXCEPT !.totalCrossAxisSize = alignerTotalCrossAxisSize(s1)]
    IN alignerAlign(_fitCrossAxisSizeToContents(s2))

_layoutAxes(s) == _layoutCrossAxis(_layoutMainAxis(s))

updateTreeLayout_CurrentAxes(s) == _layoutAxes(resetDeferredLayout(s))

updateTreeLayout_LayoutBeforeSizes(s) ==
    _setInitialAxisSizes(_layoutAxes(resetDeferredLayout(s)))

updateTreeLayout(s) == _layoutAxes(_setInitialAxisSizes(resetDeferredLayout(s)))

_updateTreeLayoutWithCurrentAxes(s) == _layoutAxes(resetDeferredLayout(s))

updateItemCoords(s) == finalize(s)

layoutTree_AlwaysFromBasis(s) == updateItemCoords(updateTreeLayout(s))

layoutTree(s) ==
    updateItemCoords(IF flexParent
                     THEN _updateTreeLayoutWithCurrentAxes(s)
                     ELSE updateTreeLayout(s))

deferLayout_LayoutAtOnce(s) ==
    _layoutAxes(Log("item.mustUpdateDeferred",
                    Log("item.resetNonFlexLayout", [s EXCEPT !.deferLayout = TRUE])))

deferLayout(s) ==
    Log("item.mustUpdateDeferred",
        Log("item.resetNonFlexLayout", [s EXCEPT !.deferLayout = TRUE]))

_getMainAxisMinSize(s) == IF isLayoutDeferred(s) THEN updateTreeLayout(s) ELSE s

_getCrossAxisMinSize_NoForce(s) == s

_getCrossAxisMinSize(s) == IF isLayoutDeferred(s) THEN updateTreeLayout(s) ELSE s

getAxisMinSize(s, h) ==
    IF horizontal = h THEN _getMainAxisMinSize(s) ELSE _getCrossAxisMinSize(s)

getAxisMinSizeResult(s, h) ==
    IF horizontal = h
    THEN mainAxisMinSize(_getMainAxisMinSize(s))
    ELSE crossAxisMinSize(_getCrossAxisMinSize(s))

\* Variants of resizeMainAxis with a slip, used to test the properties below.
resizeMainAxis_AlwaysLayout(s, size) ==
    LET s1 == [s EXCEPT !.resizingMainAxis = TRUE]
        s2 == _layoutAxes(setMainAxisSize(s1, size))
    IN [s2 EXCEPT !.resizingMainAxis = FALSE]

resizeMainAxis_NoGuardFlag(s, size) ==
    IF mainAxisSize(s) # size THEN _layoutAxes(setMainAxisSize(s, size)) ELSE s

resizeMainAxis_FlagLeftSet(s, size) ==
    LET s1 == [s EXCEPT !.resizingMainAxis = TRUE]
    IN IF mainAxisSize(s1) # size
       THEN [_layoutAxes(setMainAxisSize(s1, size)) EXCEPT !.resizingMainAxis = FALSE]
       ELSE s1

resizeMainAxis_BothFlags(s, size) ==
    LET s1 == [s EXCEPT !.resizingMainAxis = TRUE, !.resizingCrossAxis = TRUE]
        s2 == IF mainAxisSize(s1) # size
              THEN _layoutAxes(setMainAxisSize(s1, size))
              ELSE s1
    IN [s2 EXCEPT !.resizingMainAxis = FALSE, !.resizingCrossAxis = FALSE]

resizeMainAxis(s, size) ==
    LET s1 == [s EXCEPT !.resizingMainAxis = TRUE]
        s2 == IF mainAxisSize(s1) # size
              THEN _layoutAxes(setMainAxisSize(s1, size))
              ELSE s1
    IN [s2 EXCEPT !.resizingMainAxis = FALSE]

resizeCrossAxis_LayoutBothAxes(s, size) ==
    LET s1 == [s EXCEPT !.resizingCrossAxis = TRUE]
        s2 == IF crossAxisSize(s1) # size
              THEN _layoutAxes(setCrossAxisSize(s1, size))
              ELSE s1
    IN [s2 EXCEPT !.resizingCrossAxis = FALSE]

resizeCrossAxis_ClearsDeferred(s, size) ==
    LET s1 == [resetDeferredLayout(s) EXCEPT !.resizingCrossAxis = TRUE]
        s2 == IF crossAxisSize(s1) # size
              THEN _layoutCrossAxis(setCrossAxisSize(s1, size))
              ELSE s1
    IN [s2 EXCEPT !.resizingCrossAxis = FALSE]

resizeCrossAxis(s, size) ==
    LET s1 == [s EXCEPT !.resizingCrossAxis = TRUE]
        s2 == IF crossAxisSize(s1) # size
              THEN _layoutCrossAxis(setCrossAxisSize(s1, size))
              ELSE s1
    IN [s2 EXCEPT !.resizingCrossAxis = FALSE]

\* ---------------------------------------------------------------- actions
NoArg == -1

\* The names of the steps of a trace, in order.
Calls(tr) == [i \in DOMAIN tr |-> tr[i].call]

\* Number of steps of the given name in a trace.
Count(tr, name) == Cardinality({i \in DOMAIN tr : tr[i].call = name})

\* prevPasses: when the call before had the same name and arguments, the
\* number of line layouts it ran; NoArg otherwise.
Call(name, size, h, ret, s) ==
    [name |-> name, size |-> size, horiz |-> h, ret |-> ret, trace |-> s.trace,
     prevPasses |-> IF op.name = name /\ op.size = size /\ op.horiz = h
                    THEN Count(op.trace, "layoutLines")
                    ELSE NoArg]

\* What an immediate updateTreeLayout() followed by a direct read of the line
\* layouter's min size gives, per physical axis.
EagerMinSize(s) ==
    [h \in BOOLEAN |->
        LET u == updateTreeLayout(s)
        IN IF horizontal = h THEN mainAxisMinSize(u) ELSE crossAxisMinSize(u)]

NoEager == [h \in BOOLEAN |-> NoArg]

\* Write the record back to the fields and note the call that was made.
Commit(s, call) ==
    /\ layoutW' = s.layoutW
    /\ layoutH' = s.layoutH
    /\ _resizingMainAxis' = s.resizingMainAxis
    /\ _resizingCrossAxis' = s.resizingCrossAxis
    /\ _deferLayout' = s.deferLayout
    /\ lines' = s.lines
    /\ linesLaidOut' = s.linesLaidOut
    /\ _totalCrossAxisSize' = s.totalCrossAxisSize
    /\ op' = call
    /\ eagerMinSize' = IF ~s.deferLayout THEN NoEager
                       ELSE IF call.name = "deferLayout" THEN EagerMinSize(s)
                       ELSE eagerMinSize
    /\ basisW' = s.basisW
    /\ basisH' = s.basisH
    /\ UNCHANGED <<horizontal, wrap, flexParent, items>>

LayoutTree ==
    LET s == layoutTree(Cur) IN Commit(s, Call("layoutTree", NoArg, FALSE, NoArg, s))

UpdateTreeLayout ==
    LET s == updateTreeLayout(Cur)
    IN Commit(s, Call("updateTreeLayout", NoArg, FALSE, NoArg, s))

DeferLayout ==
    LET s == deferLayout(Cur) IN Commit(s, Call("deferLayout", NoArg, FALSE, NoArg, s))

ResetDeferredLayout ==
    LET s == resetDeferredLayout(Cur)
    IN Commit(s, Call("resetDeferredLayout", NoArg, FALSE, NoArg, s))

GetAxisMinSize ==
    \E h \in BOOLEAN :
        LET s == getAxisMinSize(Cur, h)
        IN Commit(s, Call("getAxisMinSize", NoArg, h, getAxisMinSizeResult(Cur, h), s))

ResizeMainAxis ==
    \E size \in Sizes :
        LET s == resizeMainAxis(Cur, size)
        IN Commit(s, Call("resizeMainAxis", size, FALSE, NoArg, s))

ResizeCrossAxis ==
    \E size \in Sizes :
        LET s == resizeCrossAxis(Cur, size)
        IN Commit(s, Call("resizeCrossAxis", size, FALSE, NoArg, s))

\* The state after construction (constructor, lines 11-28), for every
\* configuration of the node within the bounds; the layout size of a node
\* that was never laid out is its configured size.
Init ==
    /\ horizontal \in BOOLEAN
    /\ wrap \in BOOLEAN
    /\ flexParent \in BOOLEAN
    /\ basisW \in BasisSizes
    /\ basisH \in BasisSizes
    /\ items \in ItemSeqs
    /\ layoutW = basisW
    /\ layoutH = basisH
    /\ _resizingMainAxis = FALSE
    /\ _resizingCrossAxis = FALSE
    /\ _deferLayout = FALSE
    /\ lines = <<>>
    /\ linesLaidOut = FALSE
    /\ _totalCrossAxisSize = 0
    /\ op = [name |-> "constructor", size |-> NoArg, horiz |-> FALSE,
             ret |-> NoArg, trace |-> <<>>, prevPasses |-> NoArg]
    /\ eagerMinSize = NoEager

Next ==
    \/ LayoutTree
    \/ UpdateTreeLayout
    \/ DeferLayout
    \/ ResetDeferredLayout
    \/ GetAxisMinSize
    \/ ResizeMainAxis
    \/ ResizeCrossAxis

Spec == Init /\ [][Next]_vars

\* ------------------------------------------------------------- properties
geometry == <<layoutW, layoutH, lines>>

MainSteps == <<"layoutLines", "_fitMainAxisSizeToContents">>
CrossSteps == <<"aligner.init", "_fitCrossAxisSizeToContents", "aligner.align">>
AxesSteps == MainSteps \o CrossSteps
UpdateSteps == <<"resetDeferredLayout", "_setInitialAxisSizes">> \o AxesSteps

\* C1: a resizeMainAxis / resizeCrossAxis call whose size is the current
\* resolved size of that axis runs no step of layout (no line layout, no
\* aligner init or align) and leaves both resolved sizes as they were.
C1_ResizeToCurrentSizeSkipsLayout ==
    [][((op'.name = "resizeMainAxis" /\ op'.size = mainAxisSize(Cur))
          \/ (op'.name = "resizeCrossAxis" /\ op'.size = crossAxisSize(Cur)))
       => (op'.trace = <<>> /\ layoutW' = layoutW /\ layoutH' = layoutH)]_vars

\* A cross-axis resize to the size the container already has, after a layout.
C1_Witness ==
    /\ op.name = "resizeCrossAxis"
    /\ op.prevPasses = NoArg
    /\ op.trace = <<>>
    /\ op.size = crossAxisSize(Cur)
    /\ op.size # _getCrossAxisBasis
    /\ linesLaidOut

\* C2 as stated: two resizeMainAxis(v) calls in a row run exactly one
\* main+cross layout pass between them, and the second leaves the geometry.
C2_ExactlyOnePassOverTwoCalls ==
    [][(op'.name = "resizeMainAxis" /\ op'.prevPasses # NoArg)
       => (/\ op'.prevPasses + Count(op'.trace, "layoutLines") = 1
           /\ geometry' = geometry)]_vars

\* C2, amended: a resizeMainAxis(v) call runs one main+cross layout pass when
\* v differs from the resolved main size and none when it is equal; the
\* second of two calls in a row with the same v runs none and leaves the
\* geometry (sizes and lines) as the first call left it.
C2_SecondResizeIsNoOp ==
    [][(op'.name = "resizeMainAxis")
       => (/\ Calls(op'.trace) = IF op'.size # mainAxisSize(Cur) THEN AxesSteps ELSE <<>>
           /\ op'.prevPasses # NoArg => (op'.trace = <<>> /\ geometry' = geometry))]_vars

\* The second of two equal resizes, where the first one ran a layout pass on
\* a container that fits its main axis to a content of another size.
C2_Witness ==
    /\ op.name = "resizeMainAxis"
    /\ op.prevPasses = 1
    /\ op.trace = <<>>
    /\ isMainAxisFitToContents
    /\ mainAxisContentSize(Cur) # op.size

\* C3: in the pass forced by resizeMainAxis(size) (resizeCrossAxis(size)) the
\* resolved main (cross) size is size after every step and on return.
C3_FitNeverOverridesImposedSize ==
    /\ op.name = "resizeMainAxis"
       => /\ mainAxisSize(Cur) = op.size
          /\ \A i \in DOMAIN op.trace : op.trace[i].main = op.size
    /\ op.name = "resizeCrossAxis"
       => /\ crossAxisSize(Cur) = op.size
          /\ \A i \in DOMAIN op.trace : op.trace[i].cross = op.size

\* A changed main-axis resize of a container eligible for fit-to-content
\* whose content has another size than the imposed one.
C3_Witness ==
    /\ op.name = "resizeMainAxis"
    /\ op.trace # <<>>
    /\ isMainAxisFitToContents
    /\ mainAxisContentSize(Cur) # op.size
    /\ mainAxisSize(Cur) = op.size

\* C4: between public calls both resizing flags are false; inside a call
\* only resizeMainAxis has the main flag set and only resizeCrossAxis the
\* cross flag.
C4_ResizingLeftOnReturn ==
    /\ ~_resizingMainAxis
    /\ ~_resizingCrossAxis
    /\ \A i \in DOMAIN op.trace :
        /\ op.trace[i].resizingMainAxis => op.name = "resizeMainAxis"
        /\ op.trace[i].resizingCrossAxis => op.name = "resizeCrossAxis"

\* A resize that ran its pass with the flag set and has returned.
C4_Witness ==
    /\ op.name = "resizeMainAxis"
    /\ op.trace # <<>>
    /\ \A i \in DOMAIN op.trace : op.trace[i].resizingMainAxis
    /\ ~_resizingMainAxis

\* C5: a resizeMainAxis that changes the size runs line layout, main fit and
\* then the cross-axis steps, and the total cross size is the one of the new
\* lines; a resizeCrossAxis that changes the size runs the cross-axis steps
\* only and leaves the lines and the resolved main size.
C5_ResizePassesPerAxis ==
    [][/\ (op'.name = "resizeMainAxis" /\ op'.size # mainAxisSize(Cur))
          => /\ Calls(op'.trace) = AxesSteps
             /\ lines' = PackLines(1, 1, 0, op'.size, <<>>)
             /\ _totalCrossAxisSize' = alignerTotalCrossAxisSize([lines |-> lines'])
       /\ (op'.name = "resizeCrossAxis" /\ op'.size # crossAxisSize(Cur))
          => /\ Calls(op'.trace) = CrossSteps
             /\ lines' = lines
             /\ mainAxisSize(Cur)' = mainAxisSize(Cur)]_vars

\* A main-axis resize after which the lines make up another total cross size
\* than the one computed before the resize is still pending: here the state
\* after a resize that split the children over two lines.
C5_Witness ==
    /\ op.name = "resizeMainAxis"
    /\ Calls(op.trace) = AxesSteps
    /\ Len(lines) = 2
    /\ _totalCrossAxisSize = alignerTotalCrossAxisSize(Cur)
    /\ _totalCrossAxisSize > MaxOver(itemCross, 1, Len(items))

FullLayout(o) ==
    \/ o.name = "updateTreeLayout"
    \/ o.name = "layoutTree" /\ ~flexParent
    \/ o.name = "getAxisMinSize" /\ o.trace # <<>>

FixedAxesAtBasis ==
    /\ _hasFixedMainAxisBasis => mainAxisSize(Cur) = _getMainAxisBasis
    /\ _hasFixedCrossAxisBasis => crossAxisSize(Cur) = _getCrossAxisBasis

\* C6 as stated: after every non-resize layout call, layoutTree on a flex
\* item of an ancestor included, the size of an axis with a non-zero basis
\* is the basis.
C6_FixedBasisAfterEveryLayoutCall ==
    (FullLayout(op) \/ op.name = "layoutTree") => FixedAxesAtBasis

\* C6, amended: after updateTreeLayout, layoutTree on a node that is not a
\* flex item of an ancestor, and the updateTreeLayout forced by
\* getAxisMinSize, the size of an axis with a non-zero basis is the basis;
\* layoutTree on a flex item of an ancestor leaves the size of such an axis
\* as it was before the call.
C6_FixedBasisAfterFullLayout ==
    [][/\ FullLayout(op') => FixedAxesAtBasis'
       /\ (op'.name = "layoutTree" /\ flexParent)
          => /\ _hasFixedMainAxisBasis => mainAxisSize(Cur)' = mainAxisSize(Cur)
             /\ _hasFixedCrossAxisBasis => crossAxisSize(Cur)' = crossAxisSize(Cur)]_vars

\* A forced layout of a container with a fixed main basis whose content has
\* another size and whose main size had been changed by an earlier resize.
C6_Witness ==
    /\ op.name = "getAxisMinSize"
    /\ op.trace # <<>>
    /\ _hasFixedMainAxisBasis
    /\ op.trace[1].main # _getMainAxisBasis
    /\ mainAxisContentSize(Cur) # _getMainAxisBasis
    /\ mainAxisSize(Cur) = _getMainAxisBasis

\* C7: getAxisMinSize on a deferred container returns, for either axis, what
\* an immediate updateTreeLayout() at the deferLayout() call followed by a
\* direct read of the min size gave, whatever was called in between.
C7_DeferredMinSizeIsEagerMinSize ==
    [][(op'.name = "getAxisMinSize" /\ _deferLayout)
       => op'.ret = eagerMinSize[op'.horiz]]_vars

\* A min-size query answered after deferral on a wrapping container whose
\* main size was not the basis when the query came and whose children were
\* laid out again over two lines.
C7_Witness ==
    /\ op.name = "getAxisMinSize"
    /\ op.trace # <<>>
    /\ op.trace[1].main # _getMainAxisBasis
    /\ isWrapping
    /\ Len(lines) = 2
    /\ op.ret > 0

\* C8: getAxisMinSize on a deferred container runs the steps of one
\* updateTreeLayout(), answers from the lines laid out by it and leaves the
\* container not deferred; on a container that is not deferred it runs no
\* step and changes no field.
C8_MinSizeForcesOneLayoutWhenDeferred ==
    [][(op'.name = "getAxisMinSize")
       => IF _deferLayout
          THEN /\ Calls(op'.trace) = UpdateSteps
               /\ ~_deferLayout'
               /\ op'.ret = IF horizontal = op'.horiz
                            THEN mainAxisMinSize(Cur)'
                            ELSE crossAxisMinSize(Cur)'
          ELSE /\ op'.trace = <<>>
               /\ UNCHANGED fields]_vars

\* A cross-axis min-size query that found the container deferred.
C8_Witness ==
    /\ op.name = "getAxisMinSize"
    /\ op.horiz # horizontal
    /\ Calls(op.trace) = UpdateSteps
    /\ op.trace[1].main # op.trace[2].main
    /\ ~_deferLayout

\* C9: updateTreeLayout() first clears the deferred flag, sets both sizes to
\* the basis of their axis and clears both resizing flags, and then runs line
\* layout, main fit and the cross-axis steps, once each and in that order.
C9_UpdateTreeLayoutOrder ==
    op.name = "updateTreeLayout"
    => /\ Calls(op.trace) = UpdateSteps
       /\ ~op.trace[1].deferLayout
       /\ op.trace[2].main = _getMainAxisBasis
       /\ op.trace[2].cross = _getCrossAxisBasis
       /\ ~op.trace[2].resizingMainAxis
       /\ ~op.trace[2].resizingCrossAxis
       /\ ~op.trace[2].deferLayout
       /\ op.trace[3].main = _getMainAxisBasis
       /\ ~_deferLayout

\* An updateTreeLayout() of a container whose sizes were not the basis and
\* whose sizes were then fitted to the content.
C9_Witness ==
    /\ op.name = "updateTreeLayout"
    /\ op.trace[1].main # _getMainAxisBasis
    /\ op.trace[1].cross # _getCrossAxisBasis
    /\ op.trace[4].main # op.trace[3].main
    /\ Len(op.trace) = 7

\* C10: layoutTree() on a flex item of an ancestor lays the lines out with
\* the main size the node had before the call and never sets the sizes from
\* the basis; on any other node it runs the steps of updateTreeLayout(). In
\* both cases the deferred flag is cleared and one finalize runs, last.
C10_LayoutTreeKeepsImposedSizes ==
    [][(op'.name = "layoutTree")
       => /\ Calls(op'.trace) =
                IF flexParent
                THEN <<"resetDeferredLayout">> \o AxesSteps \o <<"finalize">>
                ELSE UpdateSteps \o <<"finalize">>
          /\ flexParent => /\ op'.trace[2].main = mainAxisSize(Cur)
                           /\ op'.trace[2].cross = crossAxisSize(Cur)
                           /\ lines' = PackLines(1, 1, 0, mainAxisSize(Cur), <<>>)
          /\ ~flexParent => /\ op'.trace[3].main = _getMainAxisBasis
                            /\ lines' = PackLines(1, 1, 0, _getMainAxisBasis, <<>>)
          /\ ~_deferLayout']_vars

\* layoutTree() on a flex item of an ancestor whose imposed main size is not
\* its basis: the line layout saw the imposed size.
C10_Witness ==
    /\ op.name = "layoutTree"
    /\ flexParent
    /\ _hasFixedMainAxisBasis
    /\ op.trace[2].call = "layoutLines"
    /\ op.trace[2].main # _getMainAxisBasis
    /\ op.trace[Len(op.trace)].call = "finalize"
    /\ ~_deferLayout

\* C11: after updateTreeLayout() or layoutTree() of a container that does not
\* wrap and has no main-axis basis, the resolved main size is the main-axis
\* content size of the line layouter, whose lines are at most one.
C11_MainSizeFitsSingleLine ==
    (op.name \in {"updateTreeLayout", "layoutTree"}
        /\ ~isWrapping /\ _getMainAxisBasis = 0)
    => /\ mainAxisSize(Cur) = mainAxisContentSize(Cur)
       /\ Len(lines) <= 1
       /\ Len(lines) = 1 => mainAxisSize(Cur) = lineMainAxisContentSize(lines[1])

\* layoutTree() of a flex item of an ancestor whose imposed main size was
\* not the size of its content.
C11_Witness ==
    /\ op.name = "layoutTree"
    /\ flexParent
    /\ ~isWrapping
    /\ _getMainAxisBasis = 0
    /\ Len(lines) = 1
    /\ op.trace[2].main # mainAxisSize(Cur)
    /\ mainAxisSize(Cur) = lineMainAxisContentSize(lines[1])

C13_DeferLayoutOnlyMarks ==
    [][(op'.name = "deferLayout")
       => /\ _deferLayout'
          /\ Calls(op'.trace) = <<"item.resetNonFlexLayout", "item.mustUpdateDeferred">>
          /\ \A i \in DOMAIN op'.trace : op'.trace[i].deferLayout
          /\ UNCHANGED <<layoutW, layoutH, lines, linesLaidOut, _totalCrossAxisSize,
                         _resizingMainAxis, _resizingCrossAxis>>]_vars

\* A container deferred after it had been laid out and resized.
C13_Witness ==
    /\ op.name = "deferLayout"
    /\ _deferLayout
    /\ linesLaidOut
    /\ Len(lines) = 2
    /\ mainAxisSize(Cur) # _getMainAxisBasis

\* C14: no call changes the configuration of the node (direction, wrap,
\* children, flex-item relation, configured size per axis); a resize changes
\* the resolved size only, so the basis read after it is the one read before.
C14_ConfigurationNeverWritten ==
    [][/\ UNCHANGED config
       /\ _getMainAxisBasis' = _getMainAxisBasis
       /\ _getCrossAxisBasis' = _getCrossAxisBasis]_vars

\* A main-axis resize left a resolved size that is not the configured one.
C14_Witness ==
    /\ op.name = "resizeMainAxis"
    /\ op.trace # <<>>
    /\ _hasFixedMainAxisBasis
    /\ mainAxisSize(Cur) = op.size
    /\ mainAxisSize(Cur) # _getMainAxisBasis

\* The cross size the aligner was asked to align with in a trace.
AlignCross(tr) ==
    LET i == CHOOSE j \in DOMAIN tr : tr[j].call = "aligner.align" IN tr[i].cross

\* The result of the cross-axis layout of a call that ended in s.
CrossOutcome(s) == <<s.totalCrossAxisSize, crossAxisSize(s), AlignCross(s.trace)>>

\* C15 as stated: for the same lines, a cross-only pass (a changed
\* resizeCrossAxis) ends with the resolved cross size that a pass which
\* lays out the main axis first (updateTreeLayout) ends with.
C15_CrossResultSameForEveryPass ==
    (op.name = "resizeCrossAxis" /\ op.trace # <<>>)
    => LET u == updateTreeLayout(Cur)
       IN u.lines = lines => crossAxisSize(u) = crossAxisSize(Cur)

\* C15, amended: when a call lays out the main axis first (a changed
\* resizeMainAxis, layoutTree, updateTreeLayout) and the lines come out as
\* they were, its cross-axis result (total cross size, resolved cross size,
\* cross size at align) is the one of cross-axis layout run alone from the
\* same cross size with the cross resizing flag clear; a changed
\* resizeCrossAxis(size) ends with the total of the unchanged lines and with
\* size as resolved cross size, fitted or not.
C15_CrossResultIndependentOfMainLayout ==
    [][/\ (lines' = lines /\ op'.trace # <<>>
            /\ (op'.name = "resizeMainAxis" \/ (op'.name = "layoutTree" /\ flexParent)))
          => <<_totalCrossAxisSize', crossAxisSize(Cur)', AlignCross(op'.trace)>>
                = CrossOutcome(_layoutCrossAxis(Cur))
       /\ (lines' = lines /\ FullLayout(op'))
          => <<_totalCrossAxisSize', crossAxisSize(Cur)', AlignCross(op'.trace)>>
                = CrossOutcome(_layoutCrossAxis(setCrossAxisSize(Cur, _getCrossAxisBasis)))
       /\ (op'.name = "resizeCrossAxis" /\ op'.trace # <<>>)
          => /\ lines' = lines
             /\ _totalCrossAxisSize' = alignerTotalCrossAxisSize(Cur)
             /\ crossAxisSize(Cur)' = op'.size
             /\ AlignCross(op'.trace) = op'.size]_vars

\* updateTreeLayout() of a laid-out container with one line and no cross
\* basis, whose cross size had been imposed before: the fitted size differs.
C15_Witness ==
    /\ op.name = "updateTreeLayout"
    /\ ~isWrapping
    /\ Len(lines) = 1
    /\ ~_hasFixedCrossAxisBasis
    /\ op.trace[1].cross # crossAxisSize(Cur)
    /\ crossAxisSize(Cur) = alignerTotalCrossAxisSize(Cur)

\* C16: in every call, aligner.init runs only when the lines of the container
\* have been laid out and the main fit has run, in this call or in an
\* earlier one.
C16_CrossLayoutOnlyAfterMainLayout ==
    [][\A i \in DOMAIN op'.trace :
          op'.trace[i].call = "aligner.init"
          => \/ linesLaidOut
             \/ \E j \in 1..(i - 1) : op'.trace[j].call = "_fitMainAxisSizeToContents"]_vars

\* C17: the main fit sets the main size to the content size of the lines
\* when the main resizing flag is clear, the container does not wrap and the
\* main basis is zero; in every other case the main size after the main fit
\* is the one the line layout was given.
C17_MainFitOnlyWhenEligible ==
    \A i \in DOMAIN op.trace :
        op.trace[i].call = "_fitMainAxisSizeToContents"
        => /\ i > 1
           /\ op.trace[i - 1].call = "layoutLines"
           /\ op.trace[i].main =
                IF ~op.trace[i].resizingMainAxis /\ ~isWrapping /\ _getMainAxisBasis = 0
                THEN mainAxisContentSize(Cur)
                ELSE op.trace[i - 1].main

\* A wrapping container without main basis keeps a main size that is not the
\* size of its content.
C17_Witness ==
    /\ op.name = "layoutTree"
    /\ isWrapping
    /\ ~_hasFixedMainAxisBasis
    /\ Count(op.trace, "_fitMainAxisSizeToContents") = 1
    /\ mainAxisContentSize(Cur) # mainAxisSize(Cur)
    /\ Len(lines) = 2

\* C18: a cross-axis pass is aligner.init, cross fit, aligner.align in that
\* order; the cross size at align is the total cross size of the aligner
\* when the cross resizing flag is clear and the cross basis is zero, and the
\* size the pass was given otherwise; it is not changed after align.
C18_CrossFitBetweenInitAndAlign ==
    \A i \in DOMAIN op.trace :
        op.trace[i].call = "aligner.init"
        => /\ i + 2 <= Len(op.trace)
           /\ op.trace[i + 1].call = "_fitCrossAxisSizeToContents"
           /\ op.trace[i + 2].call = "aligner.align"
           /\ _totalCrossAxisSize = alignerTotalCrossAxisSize(Cur)
           /\ op.trace[i + 2].cross =
                IF ~op.trace[i].resizingCrossAxis /\ _getCrossAxisBasis = 0
                THEN _totalCrossAxisSize
                ELSE op.trace[i].cross
           /\ \A j \in (i + 2)..Len(op.trace) : op.trace[j].cross = op.trace[i + 2].cross
           /\ crossAxisSize(Cur) = op.trace[i + 2].cross

\* A wrapping container without cross basis, laid out over two lines: the
\* cross size at align is the total of the lines, not the size at init.
C18_Witness ==
    /\ op.name = "layoutTree"
    /\ isWrapping
    /\ Len(lines) = 2
    /\ ~_hasFixedCrossAxisBasis
    /\ AlignCross(op.trace) = _totalCrossAxisSize
    /\ op.trace[Len(op.trace) - 3].call = "aligner.init"
    /\ op.trace[Len(op.trace) - 3].cross # _totalCrossAxisSize

\* C19: the deferred flag becomes true only in deferLayout() and false only
\* in updateTreeLayout() (also when forced by getAxisMinSize), layoutTree()
\* and resetDeferredLayout(); a resize, changed or not, leaves it as it was
\* at every step.
C19_DeferredChangesOnlyAsDocumented ==
    [][/\ (~_deferLayout /\ _deferLayout') => op'.name = "deferLayout"
       /\ (_deferLayout /\ ~_deferLayout')
          => op'.name \in {"updateTreeLayout", "getAxisMinSize", "layoutTree",
                           "resetDeferredLayout"}
       /\ op'.name \in {"resizeMainAxis", "resizeCrossAxis"}
          => /\ _deferLayout' = _deferLayout
             /\ \A i \in DOMAIN op'.trace : op'.trace[i].deferLayout = _deferLayout]_vars

\* A deferred container was resized on its cross axis and is still deferred.
C19_Witness ==
    /\ op.name = "resizeCrossAxis"
    /\ op.trace # <<>>
    /\ _deferLayout
    /\ crossAxisSize(Cur) = op.size

\* C20: a resizeMainAxis that changes the size of a container without cross
\* basis fits the cross size: on return the resolved cross size is the total
\* cross size of the lines laid out in that call, whatever it was before.
C20_MainResizeFitsCrossAxis ==
    (op.name = "resizeMainAxis" /\ op.trace # <<>> /\ _getCrossAxisBasis = 0)
    => /\ crossAxisSize(Cur) = _totalCrossAxisSize
       /\ _totalCrossAxisSize = alignerTotalCrossAxisSize(Cur)

\* A main-axis resize of a container whose cross size had been imposed: the
\* cross size before the pass was not the total it has now.
C20_Witness ==
    /\ op.name = "resizeMainAxis"
    /\ op.trace # <<>>
    /\ ~_hasFixedCrossAxisBasis
    /\ op.trace[1].cross # _totalCrossAxisSize
    /\ crossAxisSize(Cur) = _totalCrossAxisSize
    /\ _totalCrossAxisSize > 0

====
